---- MODULE Spec2Model ----
(***************************************************************************)
(* A model of src/inventory.py: one DropsCampaign owning TimedDrop units,   *)
(* the functools.cached_property memo cells of both classes, the explicit   *)
(* `del` invalidation of those cells, and the asynchronous claim() call     *)
(* that suspends on Twitch.gql_request.                                     *)
(*                                                                         *)
(* A cached_property cell is modelled as a sequence: <<>> when the          *)
(* instance __dict__ holds no entry, <<v>> when it holds v.  `del` of an    *)
(* empty cell raises AttributeError, exactly as `del obj.attr` does for a   *)
(* cached_property that was never read.  A handler that raises stops where  *)
(* it raised: the assignments made before the raise are kept.               *)
(*                                                                         *)
(* Floats produced by `/` are modelled as exact reduced fractions <<n, d>>. *)
(*                                                                         *)
(* ret holds the last call: its name, its unit (0 for the campaign) and its *)
(* outcome: the returned value, or the name of the exception it raised.  A  *)
(* read of a cached property leaves the value it returned in its cell.      *)
(*                                                                         *)
(* Six specifications share the actions: Spec runs every operation on      *)
(* campaigns of at most one unit; SpecClaims, SpecPair and SpecWindows run  *)
(* the claim operations, SpecMinutes the minutes operations, SpecTerminal   *)
(* every operation that writes a field, on larger campaigns.                *)
(***************************************************************************)
EXTENDS Integers, Sequences, FiniteSets, TLC

\* ---------------------------------------------------------------- bounds
MaxDrops == 2
MaxRequired == 1
MaxPending == 2
MaxTime == 2

DropIds == 1..MaxDrops
\* values handed to update_minutes: one past the largest required_minutes
Minutes == 0..(MaxRequired + 1)
Times == 0..MaxTime
Windows == {w \in Times \X Times : w[1] < w[2]}
Tokens == {"t1"}
None == "None"
\* preconditionDrops of the snapshot: null/empty, or one id (possibly of no unit)
PreconditionLists == {<<>>} \cup {<<p>> : p \in DropIds}

VARIABLES
    timed_drops,              \* DropsCampaign.timed_drops: the ids, in dict order 1..n
    campaign_window,          \* DropsCampaign.starts_at, ends_at
    drop_window,              \* BaseDrop.starts_at, ends_at
    precondition_drops,       \* BaseDrop._precondition_drops
    required_minutes,         \* TimedDrop.required_minutes
    claim_id,                 \* BaseDrop.claim_id
    is_claimed,               \* BaseDrop.is_claimed
    current_minutes,          \* TimedDrop.current_minutes
    drop_preconditions,       \* memo cell of BaseDrop.preconditions
    drop_progress,            \* memo cell of TimedDrop.progress
    drop_remaining_minutes,   \* memo cell of TimedDrop.remaining_minutes
    claimed_drops,            \* memo cell of DropsCampaign.claimed_drops
    remaining_drops,          \* memo cell of DropsCampaign.remaining_drops
    remaining_minutes,        \* memo cell of DropsCampaign.remaining_minutes
    progress,                 \* memo cell of DropsCampaign.progress
    pending,                  \* per unit: claim() calls suspended in gql_request
    ret                       \* the last operation, its unit and its outcome

fields == <<claim_id, is_claimed, current_minutes>>
snapshot == <<timed_drops, campaign_window, drop_window, precondition_drops,
              required_minutes>>
drop_cells == <<drop_preconditions, drop_progress, drop_remaining_minutes>>
campaign_cells == <<claimed_drops, remaining_drops, remaining_minutes, progress>>
vars == <<snapshot, fields, drop_cells, campaign_cells, pending, ret>>

\* ------------------------------------------------------------- fractions
RECURSIVE GCD(_, _)
GCD(a, b) == IF b = 0 THEN a ELSE GCD(b, a % b)

Frac(n, d) == LET g == GCD(n, d) IN <<n \div g, d \div g>>
FracAdd(x, y) == Frac(x[1] * y[2] + y[1] * x[2], x[2] * y[2])
FracDivInt(x, k) == Frac(x[1], x[2] * k)
Zero == <<0, 1>>
One == <<1, 1>>

\* ------------------------------------------------------------ memo cells
Empty == <<>>
Cached(cell) == cell # Empty
Value(cell) == cell[1]

Result(op, d, val) == [op |-> op, drop |-> d, val |-> val]

\* ------------------------------------------------------- derived values
\* DropsCampaign.total_drops
total_drops == Cardinality(timed_drops)

\* DropsCampaign.active at the clock reading `now`
active(now) == campaign_window[1] <= now /\ now < campaign_window[2]

\* BaseDrop.can_claim
can_claim(d) == claim_id[d] # None

\* the body of TimedDrop.remaining_minutes
ComputeRemainingMinutes(d) == required_minutes[d] - current_minutes[d]

\* the body of TimedDrop.progress
ComputeProgress(d) == Frac(current_minutes[d], required_minutes[d])

\* all(campaign.timed_drops[pid].is_claimed for pid in pids): left to right,
\* stopping at the first unclaimed unit; an id of no unit raises KeyError
RECURSIVE AllClaimed(_)
AllClaimed(pids) ==
    IF pids = <<>> THEN "True"
    ELSE IF Head(pids) \notin timed_drops THEN "KeyError"
    ELSE IF ~is_claimed[Head(pids)] THEN "False"
    ELSE AllClaimed(Tail(pids))

\* the body of BaseDrop.preconditions
ComputePreconditions(d) == AllClaimed(precondition_drops[d])

\* what a read of the cached property returns: the memo if there is one
ReadRemainingMinutes(d) ==
    IF Cached(drop_remaining_minutes[d]) THEN Value(drop_remaining_minutes[d])
    ELSE ComputeRemainingMinutes(d)

ReadProgress(d) ==
    IF Cached(drop_progress[d]) THEN Value(drop_progress[d])
    ELSE ComputeProgress(d)

ReadPreconditions(d) ==
    IF Cached(drop_preconditions[d])
    THEN (IF Value(drop_preconditions[d]) THEN "True" ELSE "False")
    ELSE ComputePreconditions(d)

\* sums over timed_drops.values(), in dict order 1..n
RECURSIVE SumInt(_, _)
SumInt(f, k) == IF k = 0 THEN 0 ELSE SumInt(f, k - 1) + f[k]

RECURSIVE SumFrac(_, _)
SumFrac(f, k) == IF k = 0 THEN Zero ELSE FracAdd(SumFrac(f, k - 1), f[k])

\* the body of DropsCampaign.claimed_drops
ComputeClaimedDrops == Cardinality({d \in timed_drops : is_claimed[d]})

\* the body of DropsCampaign.remaining_drops
ComputeRemainingDrops == Cardinality({d \in timed_drops : ~is_claimed[d]})

\* the body of DropsCampaign.remaining_minutes: it reads every unit's property
ComputeCampaignRemainingMinutes ==
    SumInt([d \in timed_drops |-> ReadRemainingMinutes(d)], total_drops)

\* the numerator of DropsCampaign.progress: it reads every unit's property
ComputeProgressSum ==
    SumFrac([d \in timed_drops |-> ReadProgress(d)], total_drops)

ReadClaimedDrops ==
    IF Cached(claimed_drops) THEN Value(claimed_drops) ELSE ComputeClaimedDrops

ReadRemainingDrops ==
    IF Cached(remaining_drops) THEN Value(remaining_drops) ELSE ComputeRemainingDrops

ReadCampaignRemainingMinutes ==
    IF Cached(remaining_minutes) THEN Value(remaining_minutes)
    ELSE ComputeCampaignRemainingMinutes

\* what a read of DropsCampaign.progress returns in a campaign with units
ReadCampaignProgress ==
    IF Cached(progress) THEN Value(progress)
    ELSE FracDivInt(ComputeProgressSum, total_drops)

\* BaseDrop.can_earn, which reads the clock twice: datetime.utcnow() gives
\* now1 inside campaign.active and now2 in the test of the unit's own window
ComputeCanEarn(d, now1, now2) ==
    LET p == ReadPreconditions(d) IN
    IF p = "KeyError" THEN "KeyError"
    ELSE IF /\ p = "True"
            /\ ~is_claimed[d]
            /\ active(now1)
            /\ drop_window[d][1] <= now2
            /\ now2 < drop_window[d][2]
         THEN "True" ELSE "False"

\* ---------------------------------------------------------- invalidation
\* DropsCampaign._on_minutes_changed: del progress; del remaining_minutes
Campaign_on_minutes_changed ==
    LET a == Cached(progress)
        b == a /\ Cached(remaining_minutes)
    IN [progress |-> IF a THEN Empty ELSE progress,
        remaining_minutes |-> IF b THEN Empty ELSE remaining_minutes,
        outcome |-> IF b THEN "None" ELSE "AttributeError"]

\* TimedDrop._on_minutes_changed: del progress; del remaining_minutes; notify
Drop_on_minutes_changed(d) ==
    LET a == Cached(drop_progress[d])
        b == a /\ Cached(drop_remaining_minutes[d])
        c == Campaign_on_minutes_changed
    IN [drop_progress |->
            IF a THEN [drop_progress EXCEPT ![d] = Empty] ELSE drop_progress,
        drop_remaining_minutes |->
            IF b THEN [drop_remaining_minutes EXCEPT ![d] = Empty]
            ELSE drop_remaining_minutes,
        progress |-> IF b THEN c.progress ELSE progress,
        remaining_minutes |-> IF b THEN c.remaining_minutes ELSE remaining_minutes,
        outcome |-> IF b THEN c.outcome ELSE "AttributeError"]

\* for drop in self.timed_drops.values(): drop._on_claim(), from unit k on;
\* BaseDrop._on_claim is `del self.preconditions`
RECURSIVE Drops_on_claim(_, _)
Drops_on_claim(cells, k) ==
    IF k > total_drops THEN [drop_preconditions |-> cells, outcome |-> "None"]
    ELSE IF ~Cached(cells[k])
         THEN [drop_preconditions |-> cells, outcome |-> "AttributeError"]
    ELSE Drops_on_claim([cells EXCEPT ![k] = Empty], k + 1)

\* DropsCampaign._on_claim: del claimed_drops; del remaining_drops; the loop
Campaign_on_claim ==
    LET a == Cached(claimed_drops)
        b == a /\ Cached(remaining_drops)
        c == Drops_on_claim(drop_preconditions, 1)
    IN [claimed_drops |-> IF a THEN Empty ELSE claimed_drops,
        remaining_drops |-> IF b THEN Empty ELSE remaining_drops,
        drop_preconditions |->
            IF b THEN c.drop_preconditions ELSE drop_preconditions,
        outcome |-> IF b THEN c.outcome ELSE "AttributeError"]

\* ---------------------------------------------------------- construction
\* the per-unit records of a snapshot with n units, its fields drawn from the
\* given sets
Snapshots(n, Claimed, Ids, Required, Watched, Pre, Win) ==
    {data \in [1..n -> [isClaimed : Claimed,
                        dropInstanceID : Ids,
                        requiredMinutesWatched : Required,
                        currentMinutesWatched : Watched,
                        preconditionDrops : Pre,
                        window : Win]] :
        \A d \in 1..n :
            data[d].currentMinutesWatched <= data[d].requiredMinutesWatched}

\* DropsCampaign.__init__ and, per unit, BaseDrop.__init__ / TimedDrop.__init__
Construct(n, data, w) ==
    /\ timed_drops = 1..n
    /\ campaign_window = w
    /\ drop_window = [d \in 1..n |-> data[d].window]
    /\ precondition_drops = [d \in 1..n |-> data[d].preconditionDrops]
    /\ required_minutes = [d \in 1..n |-> data[d].requiredMinutesWatched]
    /\ claim_id = [d \in 1..n |-> data[d].dropInstanceID]
    /\ is_claimed = [d \in 1..n |-> data[d].isClaimed]
    /\ current_minutes =
          [d \in 1..n |-> IF data[d].isClaimed
                          THEN data[d].requiredMinutesWatched
                          ELSE data[d].currentMinutesWatched]
    /\ drop_preconditions = [d \in 1..n |-> Empty]
    /\ drop_progress = [d \in 1..n |-> Empty]
    /\ drop_remaining_minutes = [d \in 1..n |-> Empty]
    /\ claimed_drops = Empty
    /\ remaining_drops = Empty
    /\ remaining_minutes = Empty
    /\ progress = Empty
    /\ pending = [d \in 1..n |-> 0]
    /\ ret = Result("__init__", 0, "None")

WholeWindow == {<<0, MaxTime>>}

\* campaigns of at most one unit without preconditions, that differ in their
\* claim state and their minutes
Init ==
    \E n \in 0..1 :
    \E data \in Snapshots(n, BOOLEAN, {None} \cup Tokens, 1..MaxRequired,
                          0..MaxRequired, {<<>>}, WholeWindow) :
        Construct(n, data, <<0, MaxTime>>)

\* campaigns of up to MaxDrops units that differ in their claim state and their
\* preconditions; every unit needs MaxRequired minutes and has watched none
InitClaims ==
    \E n \in 0..MaxDrops :
    \E data \in Snapshots(n, BOOLEAN, {None} \cup Tokens, {MaxRequired}, {0},
                          PreconditionLists, WholeWindow) :
        Construct(n, data, <<0, MaxTime>>)

\* a unit and one sibling: campaigns of exactly two units that differ in their
\* claim state and in which either unit may be a precondition of either
InitPair ==
    \E data \in Snapshots(2, BOOLEAN, {None} \cup Tokens, {MaxRequired}, {0},
                          {<<>>, <<1>>, <<2>>}, WholeWindow) :
        Construct(2, data, <<0, MaxTime>>)

\* campaigns of two units with claim tokens that differ in the campaign's
\* window and in the second unit's window, claim state and precondition; the
\* first unit is unclaimed, has no precondition and the longest window
InitWindows ==
    \E w \in Windows :
    \E data \in Snapshots(2, BOOLEAN, Tokens, {MaxRequired}, {0},
                          {<<>>, <<1>>}, Windows) :
        /\ ~data[1].isClaimed
        /\ data[1].preconditionDrops = <<>>
        /\ data[1].window = <<0, MaxTime>>
        /\ Construct(2, data, w)

\* campaigns of up to MaxDrops units that differ in their minutes; no unit has
\* a claim token or a precondition
InitMinutes ==
    \E n \in 0..MaxDrops :
    \E data \in Snapshots(n, BOOLEAN, {None}, 1..MaxRequired, 0..MaxRequired,
                          {<<>>}, WholeWindow) :
        Construct(n, data, <<0, MaxTime>>)

\* ------------------------------------------------------------------ reads
\* TimedDrop.remaining_minutes
read_drop_remaining_minutes(d) ==
    /\ drop_remaining_minutes' =
          [drop_remaining_minutes EXCEPT ![d] = <<ReadRemainingMinutes(d)>>]
    /\ ret' = Result("drop.remaining_minutes", d, "ok")
    /\ UNCHANGED <<snapshot, fields, drop_preconditions, drop_progress,
                   campaign_cells, pending>>

\* TimedDrop.progress
read_drop_progress(d) ==
    /\ drop_progress' = [drop_progress EXCEPT ![d] = <<ReadProgress(d)>>]
    /\ ret' = Result("drop.progress", d, "ok")
    /\ UNCHANGED <<snapshot, fields, drop_preconditions, drop_remaining_minutes,
                   campaign_cells, pending>>

\* BaseDrop.preconditions, read directly: memoized unless it raises
read_preconditions(d) ==
    LET p == ReadPreconditions(d) IN
    /\ drop_preconditions' =
          IF p = "KeyError" THEN drop_preconditions
          ELSE [drop_preconditions EXCEPT ![d] = <<p = "True">>]
    /\ ret' = Result("preconditions", d, p)
    /\ UNCHANGED <<snapshot, fields, drop_progress, drop_remaining_minutes,
                   campaign_cells, pending>>

\* BaseDrop.can_earn, which reads BaseDrop.preconditions first; now1 and now2
\* are the two readings of the clock
can_earn(d, now1, now2) ==
    LET p == ReadPreconditions(d) IN
    /\ drop_preconditions' =
          IF p = "KeyError" THEN drop_preconditions
          ELSE [drop_preconditions EXCEPT ![d] = <<p = "True">>]
    /\ ret' = Result("can_earn", d, ComputeCanEarn(d, now1, now2))
    /\ UNCHANGED <<snapshot, fields, drop_progress, drop_remaining_minutes,
                   campaign_cells, pending>>

\* DropsCampaign.claimed_drops
read_claimed_drops ==
    /\ claimed_drops' = <<ReadClaimedDrops>>
    /\ ret' = Result("claimed_drops", 0, "ok")
    /\ UNCHANGED <<snapshot, fields, drop_cells, remaining_drops,
                   remaining_minutes, progress, pending>>

\* DropsCampaign.remaining_drops
read_remaining_drops ==
    /\ remaining_drops' = <<ReadRemainingDrops>>
    /\ ret' = Result("remaining_drops", 0, "ok")
    /\ UNCHANGED <<snapshot, fields, drop_cells, claimed_drops,
                   remaining_minutes, progress, pending>>

\* DropsCampaign.remaining_minutes: a miss reads (and so memoizes) every unit's
read_remaining_minutes ==
    /\ remaining_minutes' = <<ReadCampaignRemainingMinutes>>
    /\ drop_remaining_minutes' =
          IF Cached(remaining_minutes) THEN drop_remaining_minutes
          ELSE [d \in timed_drops |-> <<ReadRemainingMinutes(d)>>]
    /\ ret' = Result("remaining_minutes", 0, "ok")
    /\ UNCHANGED <<snapshot, fields, drop_preconditions, drop_progress,
                   claimed_drops, remaining_drops, progress, pending>>

\* DropsCampaign.progress: a miss reads (and so memoizes) every unit's, then
\* divides by total_drops
read_progress ==
    /\ drop_progress' =
          IF Cached(progress) THEN drop_progress
          ELSE [d \in timed_drops |-> <<ReadProgress(d)>>]
    /\ IF Cached(progress)
       THEN /\ progress' = progress
            /\ ret' = Result("progress", 0, "ok")
       ELSE IF total_drops = 0
       THEN /\ progress' = progress
            /\ ret' = Result("progress", 0, "ZeroDivisionError")
       ELSE /\ progress' = <<FracDivInt(ComputeProgressSum, total_drops)>>
            /\ ret' = Result("progress", 0, "ok")
    /\ UNCHANGED <<snapshot, fields, drop_preconditions, drop_remaining_minutes,
                   claimed_drops, remaining_drops, remaining_minutes, pending>>

\* -------------------------------------------------------------- mutations
\* the cell updates of TimedDrop._on_minutes_changed and the handler's outcome
MinutesChanged(d, op) ==
    LET c == Drop_on_minutes_changed(d) IN
    /\ drop_progress' = c.drop_progress
    /\ drop_remaining_minutes' = c.drop_remaining_minutes
    /\ progress' = c.progress
    /\ remaining_minutes' = c.remaining_minutes
    /\ ret' = Result(op, d, c.outcome)

\* TimedDrop.update_minutes
update_minutes(d, minutes) ==
    /\ current_minutes' = [current_minutes EXCEPT ![d] = minutes]
    /\ MinutesChanged(d, "update_minutes")
    /\ UNCHANGED <<snapshot, claim_id, is_claimed, drop_preconditions,
                   claimed_drops, remaining_drops, pending>>

\* TimedDrop.bump_minutes
bump_minutes(d) ==
    IF current_minutes[d] < required_minutes[d]
    THEN /\ current_minutes' = [current_minutes EXCEPT ![d] = @ + 1]
         /\ MinutesChanged(d, "bump_minutes")
         /\ UNCHANGED <<snapshot, claim_id, is_claimed, drop_preconditions,
                        claimed_drops, remaining_drops, pending>>
    ELSE /\ ret' = Result("bump_minutes", d, "None")
         /\ UNCHANGED <<snapshot, fields, drop_cells, campaign_cells, pending>>

\* BaseDrop.update_claim
update_claim(d, token) ==
    /\ claim_id' = [claim_id EXCEPT ![d] = token]
    /\ ret' = Result("update_claim", d, "None")
    /\ UNCHANGED <<snapshot, is_claimed, current_minutes, drop_cells,
                   campaign_cells, pending>>

\* ------------------------------------------------------------------ claim
SuccessStatuses == {"ELIGIBLE_FOR_ALL", "DROP_INSTANCE_ALREADY_CLAIMED"}

\* what gql_request may produce: it raises, or it returns response["data"] with
\* "errors" absent / empty / non-empty and "claimDropRewards" absent / falsy /
\* an object without "status" / an object with a status
Responses ==
    {[transport |-> "raise", errors |-> "absent", claimDropRewards |-> "absent"]}
    \cup [transport : {"ok"},
          errors : {"absent", "empty", "nonempty"},
          claimDropRewards : {"absent", "null", "nostatus", "UNKNOWN_STATUS"}
                             \cup SuccessStatuses]

\* a faulty _claim that skips the test of "errors": C8 does not hold of it
ClaimResult_IgnoresErrors(resp) ==
    IF resp.transport = "raise" THEN "Exception"
    ELSE IF resp.claimDropRewards = "absent" THEN "False"
    ELSE IF resp.claimDropRewards = "null" THEN "False"
    ELSE IF resp.claimDropRewards = "nostatus" THEN "KeyError"
    ELSE IF resp.claimDropRewards \in SuccessStatuses THEN "True"
    ELSE "False"

\* BaseDrop._claim from the return of gql_request on
ClaimResult(resp) ==
    IF resp.transport = "raise" THEN "Exception"
    ELSE IF resp.errors = "nonempty" THEN "False"
    ELSE IF resp.claimDropRewards = "absent" THEN "False"
    ELSE IF resp.claimDropRewards = "null" THEN "False"
    ELSE IF resp.claimDropRewards = "nostatus" THEN "KeyError"
    ELSE IF resp.claimDropRewards \in SuccessStatuses THEN "True"
    ELSE "False"

\* a faulty _claim with its two early returns swapped: C10 does not hold of it
ClaimEntry_ClaimedFirst(d) ==
    IF is_claimed[d] THEN "True"
    ELSE IF ~can_claim(d) THEN "False"
    ELSE "await"

\* BaseDrop._claim up to the await: "False", "True", or "await" (a request goes out)
ClaimEntry(d) ==
    IF ~can_claim(d) THEN "False"
    ELSE IF is_claimed[d] THEN "True"
    ELSE "await"

\* a faulty claim that clears is_claimed when _claim's result is not true:
\* C19 does not hold of it
FinishClaim_ClearsOnFailure(d, result) ==
    /\ is_claimed' = [is_claimed EXCEPT ![d] = (result = "True")]
    /\ ret' = Result("claim", d, result)
    /\ UNCHANGED <<snapshot, claim_id, current_minutes, drop_cells,
                   campaign_cells>>

\* BaseDrop.claim after `result = await self._claim()`, then TimedDrop.claim
\* after `result = await super().claim()`
FinishClaim(d, result) ==
    IF result = "True"
    THEN LET c == Campaign_on_claim IN
         /\ is_claimed' = [is_claimed EXCEPT ![d] = TRUE]
         /\ claimed_drops' = c.claimed_drops
         /\ remaining_drops' = c.remaining_drops
         /\ drop_preconditions' = c.drop_preconditions
         /\ current_minutes' =
               IF c.outcome = "None"
               THEN [current_minutes EXCEPT ![d] = required_minutes[d]]
               ELSE current_minutes
         /\ ret' = Result("claim", d,
                          IF c.outcome = "None" THEN "True" ELSE c.outcome)
         /\ UNCHANGED <<snapshot, claim_id, drop_progress,
                        drop_remaining_minutes, remaining_minutes, progress>>
    ELSE /\ ret' = Result("claim", d, result)
         /\ UNCHANGED <<snapshot, fields, drop_cells, campaign_cells>>

\* claim() is called: it returns at once, or sends the request and suspends.
\* The number of suspended calls is capped at MaxPending.
claim(d) ==
    IF ClaimEntry(d) = "await"
    THEN /\ SumInt(pending, total_drops) < MaxPending
         /\ pending' = [pending EXCEPT ![d] = @ + 1]
         /\ ret' = Result("gql_request", d, claim_id[d])
         /\ UNCHANGED <<snapshot, fields, drop_cells, campaign_cells>>
    ELSE /\ FinishClaim(d, ClaimEntry(d))
         /\ UNCHANGED pending

\* a faulty claim that sends the request again when _claim's result is false:
\* C16 does not hold of it
resume_Retries(d, result) ==
    /\ pending[d] > 0
    /\ IF result = "False"
       THEN /\ ret' = Result("gql_request", d, claim_id[d])
            /\ UNCHANGED <<snapshot, fields, drop_cells, campaign_cells,
                           pending>>
       ELSE /\ pending' = [pending EXCEPT ![d] = @ - 1]
            /\ FinishClaim(d, result)

\* a suspended claim() runs to its end with _claim's result
resume(d, result) ==
    /\ pending[d] > 0
    /\ pending' = [pending EXCEPT ![d] = @ - 1]
    /\ FinishClaim(d, result)

\* gql_request completes and a suspended claim() runs to its end
claim_resume(d, resp) == resume(d, ClaimResult(resp))

\* the operations on the claim state and the values derived from it
NextClaims ==
    \/ \E d \in timed_drops : read_preconditions(d)
    \/ \E d \in timed_drops :
          \E now1 \in Times : \E now2 \in Times : can_earn(d, now1, now2)
    \/ read_claimed_drops
    \/ read_remaining_drops
    \/ \E d \in timed_drops : \E token \in Tokens : update_claim(d, token)
    \/ \E d \in timed_drops : claim(d)
    \/ \E d \in timed_drops : \E resp \in Responses : claim_resume(d, resp)

\* the operations on the minutes and the values derived from them
NextMinutes ==
    \/ \E d \in timed_drops : read_drop_remaining_minutes(d)
    \/ \E d \in timed_drops : read_drop_progress(d)
    \/ read_remaining_minutes
    \/ read_progress
    \/ \E d \in timed_drops : \E minutes \in Minutes : update_minutes(d, minutes)
    \/ \E d \in timed_drops : bump_minutes(d)

Next == NextClaims \/ NextMinutes

\* every operation, on campaigns of at most one unit
Spec == Init /\ [][Next]_vars

\* the claim operations, on campaigns of up to MaxDrops units
SpecClaims == InitClaims /\ [][NextClaims]_vars

\* the claim operations, on campaigns of a unit and one sibling
SpecPair == InitPair /\ [][NextClaims]_vars

\* the claim operations, on campaigns of two units with windows of their own
SpecWindows == InitWindows /\ [][NextClaims]_vars

\* campaigns of a unit and one sibling, both with a claim token and without
\* preconditions, that differ in their claim state
InitTerminal ==
    \E data \in Snapshots(2, BOOLEAN, Tokens, {1}, {0}, {<<>>}, WholeWindow) :
        Construct(2, data, <<0, MaxTime>>)

\* the claim operations and the two operations that set the minutes
NextTerminal ==
    \/ NextClaims
    \/ \E d \in timed_drops : \E minutes \in Minutes : update_minutes(d, minutes)
    \/ \E d \in timed_drops : bump_minutes(d)

\* every operation that writes a field, on campaigns of a unit and one sibling
SpecTerminal == InitTerminal /\ [][NextTerminal]_vars

\* the minutes operations, on campaigns of up to MaxDrops units
SpecMinutes == InitMinutes /\ [][NextMinutes]_vars

\* ================================================================ claims

\* the values a recomputation from the units' current fields gives
FreshRemainingMinutes ==
    SumInt([d \in timed_drops |-> ComputeRemainingMinutes(d)], total_drops)

FreshProgress ==
    FracDivInt(SumFrac([d \in timed_drops |-> ComputeProgress(d)], total_drops),
               total_drops)

\* the remote claim was granted to unit d by the call that just ended: claim()
\* returned true, or raised after setting is_claimed
ClaimGranted(d) ==
    /\ ret.op = "claim"
    /\ ret.drop = d
    /\ ret.val \in {"True", "AttributeError"}

\* C1: every claimed unit has current_minutes = required_minutes, and a read of
\* its progress returns 1.0 and a read of its remaining_minutes returns 0.
C1_ClaimedIsComplete ==
    \A d \in timed_drops :
        is_claimed[d] =>
            /\ current_minutes[d] = required_minutes[d]
            /\ ReadProgress(d) = One
            /\ ReadRemainingMinutes(d) = 0

\* C2: after every mutation (minute update or claim attempt) the values read
\* from claimed_drops and remaining_drops sum to total_drops.
C2_CountsSumToTotal ==
    ret.op \in {"claim", "update_minutes", "bump_minutes"} =>
        ReadClaimedDrops + ReadRemainingDrops = total_drops

\* C3: at most one claim request per unit is in flight at a time.
C3_OneRequestInFlight ==
    \A d \in timed_drops : pending[d] <= 1

\* C4: after update_minutes or bump_minutes on unit U, a read of U.progress,
\* U.remaining_minutes, campaign progress and campaign remaining_minutes each
\* returns the value recomputed from the current fields.
C4_NoStaleReadAfterMinutes ==
    ret.op \in {"update_minutes", "bump_minutes"} =>
        /\ ReadProgress(ret.drop) = ComputeProgress(ret.drop)
        /\ ReadRemainingMinutes(ret.drop) = ComputeRemainingMinutes(ret.drop)
        /\ ReadCampaignProgress = FreshProgress
        /\ ReadCampaignRemainingMinutes = FreshRemainingMinutes

\* C5: once the claim of unit a is granted, where a is the only precondition of
\* the unclaimed unit b, a read of b.can_earn at a time inside the campaign's
\* and b's window (both readings of the clock giving that time) returns true,
\* whatever was memoized before.
C5_ClaimUnblocksDependent ==
    \A a \in timed_drops : \A b \in timed_drops : \A now \in Times :
        ( /\ ClaimGranted(a)
          /\ a # b
          /\ precondition_drops[b] = <<a>>
          /\ ~is_claimed[b]
          /\ active(now)
          /\ drop_window[b][1] <= now
          /\ now < drop_window[b][2] )
        => ComputeCanEarn(b, now, now) = "True"

\* C6: claim() on a unit that is already claimed (and holds a claim token)
\* returns true and sends no request.
C6_ClaimIdempotent ==
    [][\A d \in timed_drops :
          (is_claimed[d] /\ can_claim(d) /\ claim(d)) =>
              (ret' = Result("claim", d, "True") /\ pending' = pending)]_vars

\* the response shapes the claim counts as success: no non-empty errors and a
\* claimDropRewards object with one of the two success statuses
SuccessShape(resp) ==
    /\ resp.transport = "ok"
    /\ resp.errors # "nonempty"
    /\ resp.claimDropRewards \in {"ELIGIBLE_FOR_ALL", "DROP_INSTANCE_ALREADY_CLAIMED"}

\* a response that arrived and whose claimDropRewards, if an object, has a status
WellFormed(resp) ==
    resp.transport = "ok" /\ resp.claimDropRewards # "nostatus"

\* C7: for an unclaimed unit with a token, claim() returns true and sets
\* is_claimed exactly on a success-shaped response, and returns false on
\* every other response.
C7_ClaimResultFollowsResponse ==
    [][\A d \in timed_drops :
          (pending'[d] < pending[d] /\ ~is_claimed[d] /\ can_claim(d)) =>
              \A resp \in {r \in Responses : WellFormed(r)} :
                  claim_resume(d, resp) =>
                      IF SuccessShape(resp)
                      THEN ret' = Result("claim", d, "True") /\ is_claimed'[d]
                      ELSE ret' = Result("claim", d, "False") /\ ~is_claimed'[d]]_vars

\* the failures the claim names: a non-empty error list, a missing result, an
\* unrecognized status
FailureShape(resp) ==
    /\ resp.transport = "ok"
    /\ \/ resp.errors = "nonempty"
       \/ resp.claimDropRewards \in {"absent", "null", "UNKNOWN_STATUS"}

\* what _claim makes of those failures
FailureResults == {ClaimResult(r) : r \in {x \in Responses : FailureShape(x)}}

\* C8: a claim() that receives a failure response returns false and changes
\* no field and no memo cell of any unit or of the campaign; an unclaimed unit
\* is then claimable again: the next claim() goes on to send a request.
C8_FailureLeavesClaimable ==
    [][\A d \in timed_drops :
          pending'[d] < pending[d] =>
              \A result \in FailureResults :
                  resume(d, result) =>
                      /\ ret' = Result("claim", d, "False")
                      /\ UNCHANGED <<snapshot, fields, drop_cells, campaign_cells>>
                      /\ ~is_claimed[d] => (ClaimEntry(d))' = "await"]_vars

\* C8 happens: a failed claim on an unclaimed unit whose campaign and unit
\* memo cells are populated
C8_Witness ==
    /\ ret.op = "claim"
    /\ ret.val = "False"
    /\ ret.drop \in timed_drops
    /\ can_claim(ret.drop)
    /\ ~is_claimed[ret.drop]
    /\ Cached(claimed_drops)
    /\ Cached(remaining_drops)
    /\ \A d \in timed_drops : Cached(drop_preconditions[d])
    /\ total_drops = 2

\* C9: 0 <= current_minutes <= required_minutes for every unit.
C9_MinutesInRange ==
    \A d \in timed_drops :
        0 <= current_minutes[d] /\ current_minutes[d] <= required_minutes[d]

\* C10: claim() on a unit without a claim token returns false, sends no
\* request and changes no field and no memo cell, claimed or not.
C10_NoTokenNoEffect ==
    [][\A d \in timed_drops :
          (claim(d) /\ ~can_claim(d)) =>
              /\ ret' = Result("claim", d, "False")
              /\ UNCHANGED <<snapshot, fields, drop_cells, campaign_cells,
                             pending>>]_vars

\* C10 happens: claim() returned false on a claimed unit without a token while
\* the campaign's and the units' memo cells were populated
C10_Witness ==
    /\ ret.op = "claim"
    /\ ret.val = "False"
    /\ ret.drop \in timed_drops
    /\ ~can_claim(ret.drop)
    /\ is_claimed[ret.drop]
    /\ Cached(claimed_drops)
    /\ Cached(remaining_drops)
    /\ \A d \in timed_drops : Cached(drop_preconditions[d])
    /\ total_drops = 2

\* C11: bump_minutes completes; below required_minutes it adds exactly 1 to
\* current_minutes, at required_minutes it changes nothing; once
\* current_minutes = required_minutes a read of the unit's progress returns
\* 1.0 and a read of its remaining_minutes returns 0.
C11_BumpCountsToRequired ==
    [][\A d \in timed_drops :
          bump_minutes(d) =>
              /\ ret' = Result("bump_minutes", d, "None")
              /\ current_minutes'[d] =
                    IF current_minutes[d] < required_minutes[d]
                    THEN current_minutes[d] + 1
                    ELSE current_minutes[d]
              /\ current_minutes'[d] = required_minutes[d] =>
                    /\ (ReadProgress(d))' = One
                    /\ (ReadRemainingMinutes(d))' = 0]_vars

\* C12: in a campaign without units a read of DropsCampaign.progress returns
\* a value; it does not raise.
C12_EmptyCampaignProgress ==
    (ret.op = "progress" /\ total_drops = 0) => ret.val = "ok"

\* gql_request raises instead of returning a response
TransportFailure(resp) == resp.transport = "raise"

\* what _claim makes of a request that raises
TransportResults == {ClaimResult(r) : r \in {x \in Responses : TransportFailure(x)}}

\* C13: a claim() whose request raises in the transport returns false, and
\* the unit stays unclaimed.
C13_TransportFailureIsFalse ==
    [][\A d \in timed_drops :
          (pending'[d] < pending[d] /\ ~is_claimed[d]) =>
              \A result \in TransportResults :
                  resume(d, result) =>
                      /\ ret' = Result("claim", d, "False")
                      /\ ~is_claimed'[d]]_vars

\* every precondition id of every unit names a unit of the campaign
PreconditionsResolve ==
    \A d \in timed_drops :
        \A k \in 1..Len(precondition_drops[d]) :
            precondition_drops[d][k] \in timed_drops

\* C14: no constructed campaign has a precondition id that names no unit of
\* the campaign, and no read of can_earn meets an unresolved id.
C14_NoDanglingPrecondition ==
    /\ PreconditionsResolve
    /\ ret.op \in {"can_earn", "preconditions"} => ret.val # "KeyError"

\* what the four conditions of can_earn give when evaluated on the units'
\* current fields at the clock reading `now`
Eligible(d, now) ==
    /\ \A k \in 1..Len(precondition_drops[d]) :
          is_claimed[precondition_drops[d][k]]
    /\ ~is_claimed[d]
    /\ campaign_window[1] <= now /\ now < campaign_window[2]
    /\ drop_window[d][1] <= now /\ now < drop_window[d][2]

\* C15: a read of can_earn returns true iff all precondition units are
\* claimed, the unit is not claimed, the campaign is active and now is in the
\* unit's window [starts_at, ends_at); so it returns false outside that
\* window, now = ends_at included, and false for a claimed unit.  The call
\* lasts from its first reading of the clock to its second: it returns true
\* only if the four conditions hold together at some time of the call, and
\* it returns true if they hold together at every time of the call.
C15_CanEarnIffEligible ==
    \A d \in timed_drops : \A now1 \in Times : \A now2 \in Times :
        now1 <= now2 =>
            /\ ComputeCanEarn(d, now1, now2) \in {"True", "False"}
            /\ ComputeCanEarn(d, now1, now2) = "True" =>
                  \E now \in now1..now2 : Eligible(d, now)
            /\ (\A now \in now1..now2 : Eligible(d, now)) =>
                  ComputeCanEarn(d, now1, now2) = "True"

\* C16: a request goes out only as the one request of a claim() call that
\* has just been entered, and carries the unit's claim token: every step that
\* sends a request adds exactly one request in flight for that unit, and no
\* other step adds any, the end of a claim() with a failure response included.
C16_SingleRequest ==
    [][/\ ret'.op = "gql_request" =>
             \E d \in timed_drops :
                 /\ ret' = Result("gql_request", d, claim_id[d])
                 /\ can_claim(d)
                 /\ pending' = [pending EXCEPT ![d] = @ + 1]
       /\ ret'.op # "gql_request" =>
             \A d \in timed_drops : pending'[d] <= pending[d]]_vars

\* C16 happens: a claim() on an unclaimed unit with a token has ended with a
\* failure response and no request of that unit is in flight
C16_Witness ==
    \E d \in timed_drops :
        /\ ret = Result("claim", d, "False")
        /\ can_claim(d)
        /\ ~is_claimed[d]
        /\ pending[d] = 0

\* C17: after a claim() that returned true on a unit whose current_minutes
\* was below required_minutes, a read of the campaign's progress and of its
\* remaining_minutes returns the value recomputed from the units' current
\* fields, given that such reads returned the recomputed values before the
\* claim (memoized or not).
C17_AggregatesFollowClaim ==
    [][\A d \in timed_drops :
          ( /\ current_minutes[d] < required_minutes[d]
            /\ ReadCampaignProgress = FreshProgress
            /\ ReadCampaignRemainingMinutes = FreshRemainingMinutes
            /\ ret' = Result("claim", d, "True") )
          => /\ current_minutes'[d] = required_minutes[d]
             /\ (ReadCampaignProgress)' = (FreshProgress)'
             /\ (ReadCampaignRemainingMinutes)' = (FreshRemainingMinutes)']_vars

\* C18: update_minutes, bump_minutes and a claim() that was granted run to
\* completion: none of them raises on a memo cell that has not been read
\* since it was last invalidated.
C18_MutationsComplete ==
    /\ ret.op \in {"update_minutes", "bump_minutes"} => ret.val = "None"
    /\ ret.op = "claim" => ret.val # "AttributeError"

\* C19: claimed is terminal: no step makes a claimed unit unclaimed.
C19_ClaimedIsTerminal ==
    [][\A d \in timed_drops : is_claimed[d] => is_claimed'[d]]_vars

\* C19 happens: a claim() on a claimed unit with a token has ended with a
\* failure response, which only a concurrent claim() can receive
C19_Witness ==
    \E d \in timed_drops :
        /\ ret = Result("claim", d, "False")
        /\ can_claim(d)
        /\ is_claimed[d]

\* C20: a minutes change on unit d (update_minutes, or bump_minutes below
\* required_minutes) leaves d's progress and remaining_minutes and the
\* campaign's progress and remaining_minutes without a memoized value, and
\* leaves claimed_drops, remaining_drops, every unit's preconditions and the
\* other units' progress and remaining_minutes as they were; bump_minutes at
\* required_minutes changes no memo cell.
C20_ExactInvalidation ==
    [][\A d \in timed_drops :
          /\ ( \/ \E minutes \in Minutes : update_minutes(d, minutes)
               \/ bump_minutes(d) /\ current_minutes[d] < required_minutes[d] )
             => /\ drop_progress'[d] = Empty
                /\ drop_remaining_minutes'[d] = Empty
                /\ progress' = Empty
                /\ remaining_minutes' = Empty
                /\ UNCHANGED <<claimed_drops, remaining_drops, drop_preconditions>>
                /\ \A o \in timed_drops \ {d} :
                      /\ drop_progress'[o] = drop_progress[o]
                      /\ drop_remaining_minutes'[o] = drop_remaining_minutes[o]
          /\ (bump_minutes(d) /\ current_minutes[d] >= required_minutes[d])
             => UNCHANGED <<drop_cells, campaign_cells>>]_vars

====
